---- MODULE Spec2Model ----
(***************************************************************************)
(* Model of git-vivado.py: the layered configuration resolver              *)
(* (read_config), the command line binding (parse_args) and the external   *)
(* tool orchestration (vivado_tcl / run_cmd) with the exit-code contract.  *)
(*                                                                         *)
(* Text is modelled as a sequence of atomic tokens.  The tokens "/" and    *)
(* "\\" are the two path separators, " " and "\n" are whitespace, "0xff"   *)
(* is a byte that is not valid utf-8, and a token such as "{repo_path}" is *)
(* the literal text of a str.format placeholder.                           *)
(***************************************************************************)
EXTENDS Integers, Sequences, FiniteSets, TLC

(***************************************************************************)
(* Bounds of the model                                                     *)
(***************************************************************************)
\* at most this many candidate configuration files exist on disk
MaxExisting == 2
\* at most this many value-taking flags are given on the command line
MaxFlags == 1

(***************************************************************************)
(* ExitCode                                                                *)
(***************************************************************************)
SUCCESS == 0
FAILURE == 1
BAD_CONFIG == 2
CHECKIN_ERROR == 3
CHECKOUT_ERROR == 4
RELEASE_ERROR == 4

(***************************************************************************)
(* Values of a JSON document / of the configuration: strings, booleans     *)
(* and numbers.                                                            *)
(***************************************************************************)
Str(s) == [t |-> "str", s |-> s, b |-> FALSE]
Bool(b) == [t |-> "bool", s |-> <<>>, b |-> b]
Num(s) == [t |-> "num", s |-> s, b |-> FALSE]

\* str(v), as str.format renders a referenced value
StrOf(v) ==
    IF v.t = "bool" THEN (IF v.b THEN <<"True">> ELSE <<"False">>) ELSE v.s

EmptyMap == [k \in {} |-> Str(<<>>)]

\* The schema, in the order the dictionary literal lists its keys
SchemaKeys ==
    <<"no_hdf", "project_name", "repo_path", "vivado_path",
      "vivado_version", "workspace_path", "xpr_path", "zip_path">>

NoDefault == Str(<<"<no default>">>)

CONFIG_ITEMS ==
    [no_hdf         |-> [required |-> FALSE, default |-> Bool(FALSE)],
     project_name   |-> [required |-> TRUE,  default |-> NoDefault],
     repo_path      |-> [required |-> FALSE, default |-> Str(<<".">>)],
     vivado_path    |-> [required |-> TRUE,  default |-> NoDefault],
     vivado_version |-> [required |-> TRUE,  default |-> NoDefault],
     workspace_path |-> [required |-> FALSE,
                         default |-> Str(<<"{repo_path}", "/", "sdk">>)],
     xpr_path       |-> [required |-> FALSE,
                         default |-> Str(<<"proj", "/", "{project_name}", ".xpr">>)],
     zip_path       |-> [required |-> FALSE,
                         default |-> Str(<<"{repo_path}", "/", "release", "/",
                                           "{project_name}", ".zip">>)]]

\* The placeholder tokens and the key each one names
PlaceholderKey ==
    [tok \in {"{no_hdf}", "{project_name}", "{repo_path}", "{vivado_path}",
              "{vivado_version}", "{workspace_path}", "{xpr_path}",
              "{zip_path}", "{nokey}"} |->
        CASE tok = "{no_hdf}" -> "no_hdf"
          [] tok = "{project_name}" -> "project_name"
          [] tok = "{repo_path}" -> "repo_path"
          [] tok = "{vivado_path}" -> "vivado_path"
          [] tok = "{vivado_version}" -> "vivado_version"
          [] tok = "{workspace_path}" -> "workspace_path"
          [] tok = "{xpr_path}" -> "xpr_path"
          [] tok = "{zip_path}" -> "zip_path"
          [] OTHER -> "nokey"]

IsPlaceholder(tok) == tok \in DOMAIN PlaceholderKey

HasPlaceholder(s) == \E i \in 1..Len(s) : IsPlaceholder(s[i])

(***************************************************************************)
(* str.format over the map                                                  *)
(***************************************************************************)
RECURSIVE FormatTokens(_, _)
FormatTokens(s, config) ==
    IF s = <<>> THEN <<>>
    ELSE (IF IsPlaceholder(Head(s))
          THEN StrOf(config[PlaceholderKey[Head(s)]])
          ELSE <<Head(s)>>) \o FormatTokens(Tail(s), config)

\* format raises KeyError when a placeholder names no key of the map
FormatRaises(v, config) ==
    /\ v.t = "str"
    /\ \E i \in 1..Len(v.s) :
          IsPlaceholder(v.s[i]) /\ PlaceholderKey[v.s[i]] \notin DOMAIN config

\* (a variant of Format that leaves the text as it is)
FormatNothing(v, config) == v

Format(v, config) ==
    IF v.t = "str" THEN Str(FormatTokens(v.s, config)) ELSE v

(***************************************************************************)
(* Configuration documents                                                 *)
(***************************************************************************)
Absent == [kind |-> "absent", map |-> EmptyMap]
Object(m) == [kind |-> "object", map |-> m]
\* a JSON list whose elements are [key, value] pairs (possibly none)
PairList(m) == [kind |-> "list", map |-> m]
Scalar == [kind |-> "scalar", map |-> EmptyMap]
Invalid == [kind |-> "invalid", map |-> EmptyMap]

\* The documents a candidate file may hold: a complete configuration, a
\* list of pairs, a partial configuration whose repo_path is a template,
\* whose version is a JSON number and which sets no_hdf, a template naming
\* no key, a scalar, and text that is not JSON
Documents ==
    { Object([project_name |-> Str(<<"p">>),
              vivado_path |-> Str(<<"/", "opt", "/", "vivado">>),
              vivado_version |-> Str(<<"2019">>)]),
      PairList([repo_path |-> Str(<<"/", "r">>)]),
      Object([project_name |-> Str(<<"q">>),
              repo_path |-> Str(<<"{project_name}", "/", "x">>),
              vivado_version |-> Num(<<"2019.1">>),
              no_hdf |-> Bool(TRUE)]),
      Object([xpr_path |-> Str(<<"{nokey}">>)]),
      Scalar,
      Invalid }

\* The candidate files of each platform, in the order read_config loads them
LoadOrder(plat) ==
    IF plat = "linux"
    THEN <<"xdg_dir", "xdg", "home_dir", "home_dot", "cwd">>
    ELSE <<"appdata", "cwd">>

Range(s) == {s[i] : i \in 1..Len(s)}

(***************************************************************************)
(* read_config                                                             *)
(***************************************************************************)
MissingKeyMsg(k) == <<"Error: Missing configuration key: ", k>>
\* the literal is no f-string: the text "{e}" is printed as it stands
LoadErrorMsg == <<"Error: could not load config: {e}">>
Traceback(exc) == <<"Traceback (most recent call last)", exc>>

\* (a variant of Update that replaces the map wholesale)
UpdateReplacing(config, m) == m

\* dict.update: the keys of m are set, the other keys of config are kept
Update(config, m) ==
    [k \in DOMAIN config \cup DOMAIN m |->
        IF k \in DOMAIN m THEN m[k] ELSE config[k]]

\* load_file on one candidate path: [failed, config]
load_file(config, doc) ==
    CASE doc.kind = "absent" -> [failed |-> FALSE, config |-> config]
      [] doc.kind \in {"object", "list"} ->
            [failed |-> FALSE, config |-> Update(config, doc.map)]
      [] OTHER -> [failed |-> TRUE, config |-> config]

\* the consecutive load_file calls on the candidates names[i..]
RECURSIVE LoadFiles(_, _, _, _)
LoadFiles(names, i, fs, config) ==
    IF i > Len(names) THEN [failed |-> FALSE, config |-> config]
    ELSE LET r == load_file(config, fs[names[i]])
         IN  IF r.failed THEN r ELSE LoadFiles(names, i + 1, fs, r.config)

\* (a variant of FillDefaults that walks the schema from its last key)
RECURSIVE FillDefaultsBackwards(_, _)
FillDefaultsBackwards(i, config) ==
    IF i > Len(SchemaKeys) THEN [missing |-> "", config |-> config]
    ELSE LET k == SchemaKeys[Len(SchemaKeys) + 1 - i]
         IN  IF k \in DOMAIN config THEN FillDefaultsBackwards(i + 1, config)
             ELSE IF CONFIG_ITEMS[k].required
                  THEN [missing |-> k, config |-> config]
                  ELSE FillDefaultsBackwards(i + 1,
                          [x \in DOMAIN config \cup {k} |->
                              IF x = k THEN CONFIG_ITEMS[k].default
                              ELSE config[x]])

\* the loop over CONFIG_ITEMS from the i-th schema key on:
\* [missing |-> the required key that ended it, or "", config]
RECURSIVE FillDefaults(_, _)
FillDefaults(i, config) ==
    IF i > Len(SchemaKeys) THEN [missing |-> "", config |-> config]
    ELSE LET k == SchemaKeys[i]
         IN  IF k \in DOMAIN config THEN FillDefaults(i + 1, config)
             ELSE IF CONFIG_ITEMS[k].required
                  THEN [missing |-> k, config |-> config]
                  ELSE FillDefaults(i + 1,
                          Update(config, [x \in {k} |-> CONFIG_ITEMS[k].default]))

\* the second loop: every string value formatted against the merged map
Expand(config) == [k \in DOMAIN config |-> Format(config[k], config)]

ExpandRaises(config) == \E k \in DOMAIN config : FormatRaises(config[k], config)

\* read_config ends the process: loaded tells whether every load_file call
\* was made, merged is the map they left, config the map at the end
Exited(code, msgs, loaded, merged, config) ==
    [status |-> "exit", code |-> code, err |-> msgs, loaded |-> loaded,
     merged |-> merged, config |-> config, c |-> EmptyMap]

Returned(merged, config) ==
    [status |-> "ok", code |-> SUCCESS, err |-> <<>>, loaded |-> TRUE,
     merged |-> merged, config |-> config, c |-> Expand(config)]

\* what read_config does once the files are merged
Resolve(config) ==
    LET f == FillDefaults(1, config)
    IN  IF f.missing # ""
        THEN Exited(BAD_CONFIG, <<MissingKeyMsg(f.missing)>>, TRUE, config,
                    f.config)
        ELSE IF ExpandRaises(f.config)
        THEN Exited(FAILURE, <<Traceback("KeyError")>>, TRUE, config, f.config)
        ELSE Returned(config, f.config)

\* the except clause of load_file
LoadFailed(config) ==
    Exited(BAD_CONFIG, <<LoadErrorMsg>>, FALSE, config, config)

\* an exception nothing catches: the interpreter prints the traceback and
\* the process ends with status 1
Uncaught(exc, config) ==
    Exited(FAILURE, <<Traceback(exc)>>, FALSE, config, config)

read_config_linux(ev, fs) ==
    IF ~ev.XDG_CONFIG_HOME /\ ~ev.HOME THEN Uncaught("KeyError", EmptyMap)
    ELSE LET a == LoadFiles(<<"xdg_dir", "xdg">>, 1, fs, EmptyMap)
         IN  IF a.failed THEN LoadFailed(a.config)
             ELSE IF ~ev.HOME THEN Uncaught("KeyError", a.config)
             ELSE LET b == LoadFiles(<<"home_dir", "home_dot", "cwd">>, 1, fs,
                                     a.config)
                  IN  IF b.failed THEN LoadFailed(b.config)
                      ELSE Resolve(b.config)

\* the first load_file call names FILENAME, which the module never defines
read_config_windows(ev, fs) ==
    IF ~ev.APPDATA THEN Uncaught("KeyError", EmptyMap)
    ELSE Uncaught("NameError", EmptyMap)

read_config(plat, ev, fs) ==
    IF plat = "linux" THEN read_config_linux(ev, fs)
    ELSE read_config_windows(ev, fs)

(***************************************************************************)
(* Paths                                                                   *)
(***************************************************************************)
\* the working directory and the directory of the program's own file
Cwd == <<"/", "work">>
ScriptDir == <<"/", "opt", "/", "vivado-scripts">>

\* str.replace(a, b)
Replace(s, a, b) == [i \in 1..Len(s) |-> IF s[i] = a THEN b ELSE s[i]]

\* the components of a path between its "/" separators
RECURSIVE Split(_, _)
Split(s, cur) ==
    IF s = <<>> THEN <<cur>>
    ELSE IF Head(s) = "/" THEN <<cur>> \o Split(Tail(s), <<>>)
    ELSE Split(Tail(s), Append(cur, Head(s)))

RECURSIVE JoinRooted(_)
JoinRooted(comps) ==
    IF comps = <<>> THEN <<>>
    ELSE <<"/">> \o Head(comps) \o JoinRooted(Tail(comps))

\* os.path.abspath on posix: made absolute against the working directory,
\* empty and "." components dropped
abspath(s) ==
    LET full == IF s # <<>> /\ s[1] = "/" THEN s ELSE Cwd \o <<"/">> \o s
        kept == SelectSeq(Split(full, <<>>),
                          LAMBDA comp : comp # <<>> /\ comp # <<".">>)
    IN  IF kept = <<>> THEN <<"/">> ELSE JoinRooted(kept)

\* os.path.join(args.script_dir, script_name).replace('\\', '/')
script_path(script_dir, script_name) ==
    Replace(script_dir \o <<"/", script_name>>, "\\", "/")

(***************************************************************************)
(* parse_args                                                              *)
(***************************************************************************)
\* the command lines modelled name no subcommand, or one of these
Subcommands == {"", "checkin", "co", "release"}

\* the handler set_defaults(func=...) binds to the subcommand
Func(sub) ==
    CASE sub \in {"checkin", "ci"} -> "checkin_handler"
      [] sub \in {"checkout", "co"} -> "checkout_handler"
      [] sub \in {"release", "re"} -> "release_handler"
      [] OTHER -> "default_handler"

\* the options that take a value, by destination, of each subparser
ValueFlags(sub) ==
    CASE Func(sub) \in {"checkin_handler", "checkout_handler"} ->
            {"vivado_path", "repo_path", "workspace_path", "xpr_path",
             "vivado_version"}
      [] Func(sub) = "release_handler" ->
            {"vivado_path", "repo_path", "workspace_path", "xpr_path",
             "vivado_version", "zip_path"}
      [] OTHER -> {}

\* --no-hdf exists on the checkin subparser alone
HasNoHdfFlag(sub) == Func(sub) = "checkin_handler"

\* values a flag is given on the command line
FlagValues == { <<"d", "\\", "o">> }

\* The namespace p.parse_args() returns: an option given on the command line
\* has its value, any other destination the default bound to it (the
\* subparser's default=, or the parser-level set_defaults)
Namespace(cfg, sub, given, nohdf) ==
    [k \in {"vivado_path", "repo_path", "workspace_path", "xpr_path",
            "vivado_version", "zip_path", "no_hdf"} |->
        IF k = "no_hdf"
        THEN (IF HasNoHdfFlag(sub) /\ nohdf THEN Bool(TRUE) ELSE cfg[k])
        ELSE (IF k \in DOMAIN given THEN Str(given[k]) ELSE cfg[k])]

\* the attributes parse_args calls .replace on
ReplacedArgs == {"repo_path", "vivado_path", "xpr_path", "zip_path"}

ParseRaises(ns) == \E k \in ReplacedArgs : ns[k].t # "str"

\* the Args tuple parse_args returns
Args(ns) ==
    [no_hdf         |-> IF "no_hdf" \in DOMAIN ns THEN ns.no_hdf
                        ELSE Bool(FALSE),
     repo_path      |-> Str(abspath(Replace(ns.repo_path.s, "\\", "/"))),
     script_dir     |-> Str(ScriptDir),
     vivado_path    |-> Str(Replace(ns.vivado_path.s, "\\", "/")),
     vivado_version |-> ns.vivado_version,
     workspace_path |-> ns.workspace_path,
     xpr_path       |-> Str(abspath(Replace(ns.xpr_path.s, "\\", "/"))),
     zip_path       |-> Str(abspath(Replace(ns.zip_path.s, "\\", "/")))]

(***************************************************************************)
(* run_cmd and vivado_tcl                                                  *)
(***************************************************************************)
\* What the environment does with the command: the launch fails with an
\* OSError, or the tool runs to its end and leaves a status and two streams
ToolRuns ==
    [launch : {"ok"}, returncode : {0, 1},
     stderr : { <<>>, <<" ", "warning", "\n">> },
     stdout : { <<"done", "\n">>, <<"0xff">> }]
    \cup [launch : {"FileNotFoundError", "PermissionError"},
          returncode : {0}, stderr : {<<>>}, stdout : {<<>>}]

IsSpace(tok) == tok \in {" ", "\n"}

\* str.strip
RECURSIVE LStrip(_)
LStrip(s) == IF s # <<>> /\ IsSpace(Head(s)) THEN LStrip(Tail(s)) ELSE s

RECURSIVE RStrip(_)
RStrip(s) ==
    IF s # <<>> /\ IsSpace(s[Len(s)]) THEN RStrip(SubSeq(s, 1, Len(s) - 1))
    ELSE s

Strip(s) == RStrip(LStrip(s))

\* bytes.decode("utf-8") raises on a byte sequence that is not utf-8
DecodeRaises(bytes) == \E i \in 1..Len(bytes) : bytes[i] = "0xff"

Truthy(v) ==
    CASE v.t = "bool" -> v.b
      [] v.t = "str" -> v.s # <<>>
      [] OTHER -> TRUE

Opt(name) == Str(<<name>>)

\* the list vivado_tcl builds
Cmd(a, script_name) ==
    << a.vivado_path,
       Opt("-mode"), Opt("batch"),
       Opt("-source"), Str(script_path(a.script_dir.s, script_name)),
       Opt("-tclargs"),
       Opt("-x"), a.xpr_path,
       Opt("-r"), a.repo_path,
       Opt("-v"), a.vivado_version,
       Opt("-w"), a.workspace_path >>
    \o (IF Truthy(a.no_hdf) THEN <<Opt("-no_hdf")>> ELSE <<>>)

NoResult == [returncode |-> 0, stderr |-> <<>>, stdout |-> <<>>]

\* run_cmd: [raised |-> the exception or "", launched, r |-> the CmdResult]
run_cmd(cmd, tool) ==
    IF \E i \in 1..Len(cmd) : cmd[i].t # "str"
    THEN [raised |-> "TypeError", launched |-> FALSE, r |-> NoResult]
    ELSE IF tool.launch # "ok"
    THEN [raised |-> tool.launch, launched |-> FALSE, r |-> NoResult]
    ELSE IF DecodeRaises(tool.stderr) \/ DecodeRaises(tool.stdout)
    THEN [raised |-> "UnicodeDecodeError", launched |-> TRUE, r |-> NoResult]
    ELSE [raised |-> "", launched |-> TRUE,
          r |-> [returncode |-> tool.returncode,
                 stderr |-> Strip(tool.stderr),
                 stdout |-> Strip(tool.stdout)]]

ExceptionMsg(e) == <<"Exception: ", e>>
StderrMsg(text) == <<"Error (stderr): ">> \o text
StdoutMsg(text) == <<"Error (stdout): ">> \o text

\* (a variant of Catch whose clause names OSError)
CatchOSError(raised) ==
    [caught |-> raised \in {"FileNotFoundError", "PermissionError"},
     e |-> raised]

\* the except clause of vivado_tcl, "except Exception as ex: e = ex":
\* [caught, e]
Catch(raised) == [caught |-> TRUE, e |-> raised]

\* (a variant of Failed that takes output on stderr for a failure)
FailedOnStderr(hasR, r, e) ==
    (hasR /\ (r.returncode # 0 \/ r.stderr # <<>>)) \/ e # ""

\* the test that decides the failure path: there is a result with a
\* non-zero status, or there is an exception
Failed(hasR, r, e) == (hasR /\ r.returncode # 0) \/ e # ""

\* (a variant of FailureExit that ends with the generic status)
FailureExitGeneric(exit_code) == FAILURE

\* the status vivado_tcl passes to sys.exit on the failure path
FailureExit(exit_code) == exit_code

\* vivado_tcl: [code |-> the exit status of the process, err |-> what it
\* prints on the error stream, cmd, launched]
vivado_tcl(a, script_name, exit_code, t) ==
    LET argv == Cmd(a, script_name)
        run  == run_cmd(argv, t)
        x    == IF run.raised # "" THEN Catch(run.raised)
                ELSE [caught |-> TRUE, e |-> ""]
        hasR == run.raised = ""
    IN  IF ~x.caught
        THEN [code |-> FAILURE, err |-> <<Traceback(run.raised)>>,
              cmd |-> argv, launched |-> run.launched]
        ELSE IF Failed(hasR, run.r, x.e)
        THEN [code |-> FailureExit(exit_code),
              err |-> (IF x.e # "" THEN <<ExceptionMsg(x.e)>> ELSE <<>>)
                      \o (IF hasR THEN <<StderrMsg(run.r.stderr),
                                         StdoutMsg(run.r.stdout)>>
                          ELSE <<>>),
              cmd |-> argv, launched |-> run.launched]
        ELSE [code |-> SUCCESS, err |-> <<>>, cmd |-> argv,
              launched |-> run.launched]

(***************************************************************************)
(* The program: one run of the script from its start to its exit           *)
(***************************************************************************)
VARIABLES
    platform,   \* PLATFORM
    env,        \* which of the consulted environment variables are set
    files,      \* the document at each candidate configuration path
    pc,         \* "start", "configured", "parsed" or "exited"
    loaded,     \* read_config made every load_file call
    merged,     \* the map the load_file calls left
    config,     \* the map at the end of read_config
    c,          \* the map read_config returned
    sub,        \* the subcommand token of the command line
    given,      \* the value-taking options given, by destination
    nohdf,      \* --no-hdf was given
    args,       \* the Args tuple
    func,       \* args.func
    tool,       \* what the external tool did
    cmd,        \* the argument vector handed to run_cmd
    launched,   \* the external process was started
    errStream,  \* the lines written to sys.stderr
    outStream,  \* the lines written to sys.stdout
    exitCode    \* the exit status of the process, -1 while it runs

vars ==
    <<platform, env, files, pc, loaded, merged, config, c, sub, given, nohdf,
      args, func, tool, cmd, launched, errStream, outStream, exitCode>>

Existing(fs) == {f \in DOMAIN fs : fs[f].kind # "absent"}

Envs(plat) ==
    IF plat = "linux"
    THEN [XDG_CONFIG_HOME : BOOLEAN, HOME : BOOLEAN, APPDATA : {FALSE}]
    ELSE [XDG_CONFIG_HOME : {FALSE}, HOME : {FALSE}, APPDATA : BOOLEAN]

NoArgs == Args([k \in {"vivado_path", "repo_path", "workspace_path",
                       "xpr_path", "vivado_version", "zip_path"} |->
                    Str(<<>>)] @@ [no_hdf |-> Bool(FALSE)])

NoTool == [launch |-> "none", returncode |-> 0, stderr |-> <<>>,
           stdout |-> <<>>]

\* The script starts on one of the two platforms it supports, with any of
\* the consulted environment variables set or not, and with a document at
\* some of the candidate paths.
Init ==
    /\ platform \in {"linux", "windows"}
    /\ env \in Envs(platform)
    /\ files \in [Range(LoadOrder(platform)) -> Documents \cup {Absent}]
    /\ Cardinality(Existing(files)) <= MaxExisting
    /\ pc = "start"
    /\ loaded = FALSE
    /\ merged = EmptyMap
    /\ config = EmptyMap
    /\ c = EmptyMap
    /\ sub = ""
    /\ given = EmptyMap
    /\ nohdf = FALSE
    /\ args = NoArgs
    /\ func = ""
    /\ tool = NoTool
    /\ cmd = <<>>
    /\ launched = FALSE
    /\ errStream = <<>>
    /\ outStream = <<>>
    /\ exitCode = -1

\* parse_args, first line: c = read_config()
ReadConfig ==
    /\ pc = "start"
    /\ \E r \in {read_config(platform, env, files)} :
           /\ loaded' = r.loaded
           /\ merged' = r.merged
           /\ config' = r.config
           /\ c' = r.c
           /\ errStream' = errStream \o r.err
           /\ IF r.status = "ok"
              THEN pc' = "configured" /\ exitCode' = exitCode
              ELSE pc' = "exited" /\ exitCode' = r.code
    /\ UNCHANGED <<platform, env, files, sub, given, nohdf, args, func, tool,
                   cmd, launched, outStream>>

\* parse_args, the rest: the parser is built with the resolved configuration
\* as defaults and the command line is parsed into the Args tuple
ParseArgs ==
    /\ pc = "configured"
    /\ \E s \in Subcommands :
       \E dests \in SUBSET ValueFlags(s) :
       \E g \in [dests -> FlagValues] :
       \E n \in (IF HasNoHdfFlag(s) THEN BOOLEAN ELSE {FALSE}) :
          /\ Cardinality(dests) <= MaxFlags
          /\ sub' = s
          /\ given' = g
          /\ nohdf' = n
          /\ \E ns \in {Namespace(c, s, g, n)} :
                 IF ParseRaises(ns)
                 THEN /\ pc' = "exited"
                      /\ exitCode' = FAILURE
                      /\ errStream' = Append(errStream,
                                             Traceback("AttributeError"))
                      /\ UNCHANGED <<args, func>>
                 ELSE /\ pc' = "parsed"
                      /\ args' = Args(ns)
                      /\ func' = Func(s)
                      /\ UNCHANGED <<exitCode, errStream>>
    /\ UNCHANGED <<platform, env, files, loaded, merged, config, c, tool, cmd,
                   launched, outStream>>

\* args.func(args) for the three handlers that run the external tool
\* (subprocess.run refuses an argument that is no string before it starts
\* anything: the environment then has no part in the outcome)
RunTcl(script_name, exit_code) ==
    \E t \in ToolRuns \cup {NoTool} :
    \E v \in {vivado_tcl(args, script_name, exit_code, t)} :
           /\ (t = NoTool) <=> (\E i \in 1..Len(v.cmd) : v.cmd[i].t # "str")
           /\ tool' = t
           /\ cmd' = v.cmd
           /\ launched' = v.launched
           /\ errStream' = errStream \o v.err
           /\ exitCode' = v.code
           /\ pc' = "exited"
           /\ UNCHANGED <<platform, env, files, loaded, merged, config, c,
                          sub, given, nohdf, args, func, outStream>>

checkin_handler ==
    /\ pc = "parsed" /\ func = "checkin_handler"
    /\ RunTcl("vivado-checkin.tcl", CHECKIN_ERROR)

checkout_handler ==
    /\ pc = "parsed" /\ func = "checkout_handler"
    /\ RunTcl("vivado-checkout.tcl", CHECKOUT_ERROR)

release_handler ==
    /\ pc = "parsed" /\ func = "release_handler"
    /\ RunTcl("vivado-release.tcl", RELEASE_ERROR)

\* "k: v" for the keys of the map in sorted order (the schema lists its keys
\* in that order)
InfoLines(m) ==
    LET ks == SelectSeq(SchemaKeys, LAMBDA k : k \in DOMAIN m)
    IN  [i \in 1..Len(ks) |-> <<ks[i], ": ">> \o StrOf(m[ks[i]])]

\* args.func(args) without a subcommand: read_config again, then the print
default_handler ==
    /\ pc = "parsed" /\ func = "default_handler"
    /\ \E r \in {read_config(platform, env, files)} :
           /\ errStream' = errStream \o r.err
           /\ IF r.status = "ok"
              THEN /\ outStream' = outStream \o InfoLines(r.c)
                   /\ exitCode' = SUCCESS
              ELSE /\ outStream' = outStream
                   /\ exitCode' = r.code
    /\ pc' = "exited"
    /\ UNCHANGED <<platform, env, files, loaded, merged, config, c, sub, given,
                   nohdf, args, func, tool, cmd, launched>>

Next ==
    \/ ReadConfig
    \/ ParseArgs
    \/ checkin_handler
    \/ checkout_handler
    \/ release_handler
    \/ default_handler

Spec == Init /\ [][Next]_vars

(***************************************************************************)
(* Properties                                                              *)
(***************************************************************************)
RequiredKeys == {k \in Range(SchemaKeys) : CONFIG_ITEMS[k].required}
OptionalKeys == Range(SchemaKeys) \ RequiredKeys

\* the position of a key in the schema
SchemaIndex(k) == CHOOSE i \in 1..Len(SchemaKeys) : SchemaKeys[i] = k

\* the candidates, by position in the load order, whose file defines k
Defining(k) ==
    {i \in 1..Len(LoadOrder(platform)) :
        /\ files[LoadOrder(platform)[i]].kind \in {"object", "list"}
        /\ k \in DOMAIN files[LoadOrder(platform)[i]].map}

LastDefining(k) == CHOOSE i \in Defining(k) : \A j \in Defining(k) : j <= i

\* C3: once every candidate file has been loaded, the merged map holds each
\* key some file defines, and no other, with the value of the last-loaded
\* file that defines it; on linux the file of the working directory is the
\* last one loaded, so its values win.
C3_LastLoadedWins ==
    loaded =>
        /\ DOMAIN merged = {k \in Range(SchemaKeys) : Defining(k) # {}}
        /\ \A k \in DOMAIN merged :
              merged[k] = files[LoadOrder(platform)[LastDefining(k)]].map[k]
        /\ platform = "linux" =>
              \A k \in DOMAIN files["cwd"].map :
                 files["cwd"].kind \in {"object", "list"} =>
                    merged[k] = files["cwd"].map[k]

\* two files overlap in part: the later one overrides a key of the earlier
\* one, and a key only the earlier one defines keeps its value
C3_Witness ==
    /\ loaded
    /\ \E i, j \in 1..Len(LoadOrder(platform)) :
          LET early == files[LoadOrder(platform)[i]]
              late  == files[LoadOrder(platform)[j]]
          IN  /\ i < j
              /\ early.kind = "object" /\ late.kind = "object"
              /\ \E k \in DOMAIN early.map \cap DOMAIN late.map :
                    early.map[k] # late.map[k] /\ merged[k] = late.map[k]
              /\ \E k \in DOMAIN early.map \ DOMAIN late.map :
                    merged[k] = early.map[k]

MissingRequired == {k \in RequiredKeys : k \notin DOMAIN merged}

FirstMissingRequired ==
    CHOOSE k \in MissingRequired :
        \A o \in MissingRequired : SchemaIndex(k) <= SchemaIndex(o)

\* C1: when the merged map lacks a required key, read_config has ended the
\* process with status 2 and its one line on the error stream names the
\* first missing required key in schema order; the command line has not
\* been looked at (so this is so for every subcommand) and no external
\* process was started.
C1_MissingRequiredKeyExits ==
    (loaded /\ MissingRequired # {}) =>
        /\ pc = "exited"
        /\ exitCode = 2
        /\ errStream = <<MissingKeyMsg(FirstMissingRequired)>>
        /\ func = "" /\ cmd = <<>> /\ ~launched
        /\ c = EmptyMap

\* a file was loaded, several required keys are missing, and the process
\* has ended with status 2 naming the first of them
C1_Witness ==
    /\ loaded
    /\ DOMAIN merged # {}
    /\ Cardinality(MissingRequired) >= 2
    /\ pc = "exited"
    /\ exitCode = 2
    /\ errStream = <<MissingKeyMsg("project_name")>>

\* read_config returned a map
ReadReturned == c # EmptyMap

\* the value of a key before expansion: as supplied, else its default
MergedOrDefault(k) ==
    IF k \in DOMAIN merged THEN merged[k] ELSE CONFIG_ITEMS[k].default

\* s with each placeholder replaced by the text of the key's value in m
RECURSIVE Substituted(_, _)
Substituted(s, m) ==
    IF s = <<>> THEN <<>>
    ELSE (IF IsPlaceholder(Head(s)) THEN StrOf(m[PlaceholderKey[Head(s)]])
          ELSE <<Head(s)>>) \o Substituted(Tail(s), m)

\* C2 as stated: in the map read_config returns, an optional key no source
\* supplies has its default with each placeholder replaced by the final
\* (returned) value of the key it names, no value holds a placeholder any
\* more, also when a supplied value is itself a template, and a value that
\* is no string is returned as it is.
C2_PlaceholdersFullyResolved ==
    ReadReturned =>
        /\ \A k \in OptionalKeys \ DOMAIN merged :
              c[k] = IF CONFIG_ITEMS[k].default.t = "str"
                     THEN Str(Substituted(CONFIG_ITEMS[k].default.s, c))
                     ELSE CONFIG_ITEMS[k].default
        /\ \A k \in DOMAIN c : ~HasPlaceholder(c[k].s)
        /\ \A k \in DOMAIN c : MergedOrDefault(k).t # "str" =>
              c[k] = MergedOrDefault(k)

NoSuppliedTemplate == \A k \in DOMAIN merged : ~HasPlaceholder(merged[k].s)

\* C2 as amended: the expansion is one pass over the merged map.  An optional
\* key no source supplies has its default with each placeholder replaced by
\* the value of the named key as supplied or defaulted, before expansion;
\* when no supplied value holds a placeholder that value is the final one and
\* no placeholder is left in any returned value; a value that is no string
\* is returned as it is.
C2_SinglePassDefaults ==
    ReadReturned =>
        /\ DOMAIN c = Range(SchemaKeys)
        /\ "no_hdf" \notin DOMAIN merged => c.no_hdf = Bool(FALSE)
        /\ "repo_path" \notin DOMAIN merged => c.repo_path = Str(<<".">>)
        /\ "workspace_path" \notin DOMAIN merged =>
              c.workspace_path =
                 Str(StrOf(MergedOrDefault("repo_path")) \o <<"/", "sdk">>)
        /\ "xpr_path" \notin DOMAIN merged =>
              c.xpr_path =
                 Str(<<"proj", "/">> \o StrOf(merged.project_name)
                     \o <<".xpr">>)
        /\ "zip_path" \notin DOMAIN merged =>
              c.zip_path =
                 Str(StrOf(MergedOrDefault("repo_path"))
                     \o <<"/", "release", "/">>
                     \o StrOf(merged.project_name) \o <<".zip">>)
        /\ NoSuppliedTemplate =>
              /\ \A k \in DOMAIN c : ~HasPlaceholder(c[k].s)
              /\ \A k \in DOMAIN c : c[k] = MergedOrDefault(k) \/
                    (k \in OptionalKeys \ DOMAIN merged /\
                     c[k] = Str(Substituted(CONFIG_ITEMS[k].default.s, c)))
        /\ \A k \in DOMAIN c : MergedOrDefault(k).t # "str" =>
              c[k] = MergedOrDefault(k)

\* the example of the specification: repo_path "/r" and project_name "p"
\* are supplied, xpr_path and workspace_path are not
C2_Witness ==
    /\ ReadReturned
    /\ "repo_path" \in DOMAIN merged /\ merged.repo_path = Str(<<"/", "r">>)
    /\ merged.project_name = Str(<<"p">>)
    /\ "xpr_path" \notin DOMAIN merged
    /\ "workspace_path" \notin DOMAIN merged
    /\ c.xpr_path = Str(<<"proj", "/", "p", ".xpr">>)
    /\ c.workspace_path = Str(<<"/", "r", "/", "sdk">>)
    /\ c.no_hdf = Bool(FALSE)

\* the failure status of each operation, as the claims give it
OpCode(f) ==
    CASE f = "checkin_handler" -> 3
      [] f = "checkout_handler" -> 4
      [] f = "release_handler" -> 4
      [] OTHER -> -1

TclHandlers == {"checkin_handler", "checkout_handler", "release_handler"}

\* the handler called vivado_tcl and the process has ended
TclDone == pc = "exited" /\ func \in TclHandlers /\ cmd # <<>>

\* the tool was started and ran to its end
ToolReturned == TclDone /\ launched /\ tool.launch = "ok"

Undecodable(bytes) == "0xff" \in Range(bytes)

ToolOutputDecodes == ~Undecodable(tool.stderr) /\ ~Undecodable(tool.stdout)

\* text without its leading and trailing whitespace
Trimmed(text) ==
    LET solid == {i \in 1..Len(text) : text[i] \notin {" ", "\n"}}
    IN  IF solid = {} THEN <<>>
        ELSE SubSeq(text,
                    CHOOSE i \in solid : \A j \in solid : i <= j,
                    CHOOSE i \in solid : \A j \in solid : j <= i)

IsLine(line, prefix) == line # <<>> /\ line[1] = prefix

\* C4 as stated: when the tool was started and returned a non-zero status,
\* the process ends with the status of the operation (3 for checkin, 4 for
\* checkout and for release), never with 0 or 1, and a line with the
\* captured stderr and a line with the captured stdout are on the error
\* stream.
C4_NonZeroStatusShowsBothStreams ==
    (ToolReturned /\ tool.returncode # 0) =>
        /\ exitCode = OpCode(func)
        /\ exitCode \notin {0, 1}
        /\ \E i \in 1..Len(errStream) : IsLine(errStream[i], "Error (stderr): ")
        /\ \E i \in 1..Len(errStream) : IsLine(errStream[i], "Error (stdout): ")

\* C4 as amended: when the tool was started and returned a non-zero status,
\* the process ends with the status of the operation, never with 0 or 1;
\* when both streams decode as utf-8 the error stream holds the trimmed
\* stderr and the trimmed stdout, and when one of them does not, it holds
\* the decoding exception alone.
C4_NonZeroStatusExitCode ==
    (ToolReturned /\ tool.returncode # 0) =>
        /\ exitCode = OpCode(func)
        /\ exitCode \notin {0, 1}
        /\ ToolOutputDecodes =>
              errStream = << <<"Error (stderr): ">> \o Trimmed(tool.stderr),
                             <<"Error (stdout): ">> \o Trimmed(tool.stdout) >>
        /\ ~ToolOutputDecodes =>
              errStream = << <<"Exception: ", "UnicodeDecodeError">> >>

\* checkin: the tool wrote to both streams and returned 1
C4_Witness ==
    /\ ToolReturned
    /\ func = "checkin_handler"
    /\ tool.returncode = 1
    /\ tool.stderr = <<" ", "warning", "\n">>
    /\ exitCode = 3
    /\ errStream = << <<"Error (stderr): ", "warning">>,
                      <<"Error (stdout): ", "done">> >>

\* C5 as stated: when the tool was started and returned status 0, the
\* process ends with status 0 whatever the tool wrote to its streams, text
\* on stderr and bytes that do not decode included.
C5_ZeroStatusAlwaysSucceeds ==
    (ToolReturned /\ tool.returncode = 0) => exitCode = 0

\* C5 as amended: when the tool was started and returned status 0 and both
\* streams decode as utf-8, the process ends with status 0 and nothing on
\* the error stream, whatever the text, text on stderr included; when a
\* stream does not decode, the process ends with the failure status of the
\* operation.
C5_ZeroStatusSucceedsWhenDecodable ==
    (ToolReturned /\ tool.returncode = 0) =>
        /\ ToolOutputDecodes => (exitCode = 0 /\ errStream = <<>>)
        /\ ~ToolOutputDecodes => exitCode = OpCode(func)

\* the tool returned 0 with text on stderr and the process ended with 0
C5_Witness ==
    /\ ToolReturned
    /\ tool.returncode = 0
    /\ tool.stderr # <<>>
    /\ ToolOutputDecodes
    /\ exitCode = 0

\* run_cmd raised: an argument that is no string, a launch that failed, or
\* output that does not decode
RunCmdRaised ==
    \/ \E i \in 1..Len(cmd) : cmd[i].t # "str"
    \/ tool.launch \in {"FileNotFoundError", "PermissionError"}
    \/ (tool.launch = "ok" /\ ~ToolOutputDecodes)

\* C6: an exception raised while the command is built or run is caught in
\* vivado_tcl: the process ends with the failure status of the operation,
\* not with 1, and the error stream holds the one "Exception:" line and no
\* traceback.
C6_LaunchExceptionsCaught ==
    (TclDone /\ RunCmdRaised) =>
        /\ exitCode = OpCode(func)
        /\ exitCode # 1
        /\ Len(errStream) = 1
        /\ IsLine(errStream[1], "Exception: ")

\* checkin: the executable is not found
C6_Witness ==
    /\ TclDone
    /\ func = "checkin_handler"
    /\ tool.launch = "FileNotFoundError"
    /\ ~launched
    /\ exitCode = 3
    /\ errStream = << <<"Exception: ", "FileNotFoundError">> >>

\* the options a subcommand exposes, by destination
Exposed(s) ==
    ValueFlags(s) \cup (IF HasNoHdfFlag(s) THEN {"no_hdf"} ELSE {})

\* the value an option has for the invocation when its flag is not given:
\* the resolved value, a path in the normal form parse_args gives it
FromConfig(k) ==
    CASE k = "vivado_path" -> Str(Replace(c[k].s, "\\", "/"))
      [] k \in {"repo_path", "xpr_path", "zip_path"} ->
            Str(abspath(Replace(c[k].s, "\\", "/")))
      [] OTHER -> c[k]

\* C7: an option whose flag is not given has the resolved configuration
\* value for the invocation; giving the flag sets the option to any value of
\* its type, so for checkin no_hdf can be made false as well as true
\* whatever the configuration holds.
C7_FlagsDefaultAndOverride ==
    /\ pc = "parsed" =>
          \A k \in Exposed(sub) :
             (k \notin DOMAIN given /\ ~(k = "no_hdf" /\ nohdf)) =>
                args[k] = FromConfig(k)
    /\ pc = "configured" =>
          /\ \A k \in ValueFlags("release") : \A v \in FlagValues :
                Namespace(c, "release", [x \in {k} |-> v], FALSE)[k] = Str(v)
          /\ \A want \in BOOLEAN : \E n \in BOOLEAN :
                Args(Namespace(c, "checkin", EmptyMap, n)).no_hdf = Bool(want)

ScriptName(f) ==
    CASE f = "checkin_handler" -> "vivado-checkin.tcl"
      [] f = "checkout_handler" -> "vivado-checkout.tcl"
      [] OTHER -> "vivado-release.tcl"

\* the no-HDF option is set for the invocation: the subcommand has the
\* option, and the flag was given or the configuration sets it
NoHdfOptionSet ==
    func = "checkin_handler" /\ (nohdf \/ c.no_hdf = Bool(TRUE))

\* C8: the argument vector is the tool, -mode batch, -source with the script
\* in the directory of the program, -tclargs, -x, -r, -v and -w with their
\* values, and then -no_hdf exactly when the no-HDF option is set for the
\* invocation, so never for checkout and release; the tool path and the
\* script path hold no backslash.
C8_ArgumentVector ==
    TclDone =>
        /\ cmd = << args.vivado_path,
                    Str(<<"-mode">>), Str(<<"batch">>),
                    Str(<<"-source">>),
                    Str(ScriptDir \o <<"/", ScriptName(func)>>),
                    Str(<<"-tclargs">>),
                    Str(<<"-x">>), args.xpr_path,
                    Str(<<"-r">>), args.repo_path,
                    Str(<<"-v">>), args.vivado_version,
                    Str(<<"-w">>), args.workspace_path >>
                  \o (IF NoHdfOptionSet THEN <<Str(<<"-no_hdf">>)>> ELSE <<>>)
        /\ "\\" \notin Range(cmd[1].s)
        /\ "\\" \notin Range(cmd[5].s)

\* a candidate file that exists and is no JSON object
Unparseable(doc) == doc.kind \in {"list", "scalar", "invalid"}

\* the candidate files that are JSON objects supply every required key
ObjectsComplete ==
    \A k \in RequiredKeys : \E f \in DOMAIN files :
        files[f].kind = "object" /\ k \in DOMAIN files[f].map

\* C9 (on linux with HOME set, the other files supplying every required
\* key): when a candidate file that exists is no JSON object, read_config
\* has ended the process with status 2 and a line on the error stream that
\* names the cause, and nothing was started.
C9_UnparseableFileExits ==
    (/\ pc # "start"
     /\ platform = "linux" /\ env.HOME
     /\ ObjectsComplete
     /\ \E f \in DOMAIN files : Unparseable(files[f])) =>
        /\ pc = "exited"
        /\ exitCode = 2
        /\ \E i \in 1..Len(errStream) :
              /\ Len(errStream[i]) >= 2
              /\ errStream[i][1] = "Error: could not load config: "
        /\ cmd = <<>> /\ ~launched

\* the environment variables the platform's candidate paths need are set
EnvComplete ==
    IF platform = "linux" THEN env.HOME ELSE env.APPDATA

\* C10: on linux and on windows, when the per-user candidates do not exist
\* and the file of the working directory supplies every required key,
\* read_config returns the map built from that file and the defaults.
C10_AbsentCandidatesSkipped ==
    (/\ pc # "start"
     /\ EnvComplete
     /\ \A f \in DOMAIN files \ {"cwd"} : files[f].kind = "absent"
     /\ files["cwd"].kind = "object"
     /\ RequiredKeys \subseteq DOMAIN files["cwd"].map) =>
        /\ ReadReturned
        /\ \A k \in RequiredKeys : c[k] = files["cwd"].map[k]
        /\ \A i \in 1..Len(errStream) : ~IsLine(errStream[i],
                                  "Traceback (most recent call last)")

====
